---- MODULE Spec2Model ----
\* Land registry front end (GovLand/src/lib/contracts.ts, EditLandModal.tsx,
\* pages/login.tsx): the two-phase ownership transfer (approvePurchase), the
\* concurrent aggregation of parcel records (getMyLands, getYourLands,
\* fetchAllLands), the price-carrying operations (listingLand, listLandForSale,
\* requestToBuyLand, EditLandModal.handleSave) and the wallet login
\* (connectMetaMask) as state machines over the ledger and the content store.
EXTENDS Integers, Sequences, FiniteSets, TLC

\* ---------------------------------------------------------------- bounds
\* Number of registered parcels (land ids 1..MaxLands).
MaxLands == 2
\* Number of approvePurchase invocations that can be in flight at once.
MaxCalls == 2
\* Length of the gateway list walked by getMyLands (the source ships one
\* entry and invites more: "other gateways can be added as needed").
NumGateways == 2
\* Number of price-carrying operations that can be in flight at once.
MaxOps == 2
\* Number of parcels listingLand may add to the registered ones.
MaxRegistrations == 1
\* Number of connection attempts made on the login page.
MaxAttempts == 6

Lands == 1..MaxLands
Calls == 1..MaxCalls
OpIds == 1..MaxOps
\* Wallet accounts.
Addresses == {"0xA", "0xB"}
NoAddress == "0x0"

\* ---------------------------------------------------------------- state
VARIABLES
    \* ledger (LandRegistry contract)
    owner,          \* land -> address               (getLand()[1])
    status,         \* land -> sale status           (getLand()[0].status)
    landPrices,     \* land -> price, in gwei        (contract.landPrices)
    pendingBuyer,   \* land -> address or NoAddress  (contract.pendingBuyer)
    \* content store access control (Kavach)
    access,         \* encrypted document CID -> address holding access
    \* approvePurchase invocations
    calls,          \* call -> record of its locals and position
    \* aggregation (getMyLands / getYourLands / fetchAllLands)
    agg,            \* the invocation: kind, position, landIds, settle order, outcome
    tasks,          \* fetchPromises: one task per position of landIds
    \* price-carrying operations and what they leave on the ledger
    ops,            \* operation -> record of its arguments, locals and position
    metadataCID,    \* land -> CID of its public document (landOnchain.metadataCID)
    registered,     \* parcels added by registerLand, in order of confirmation
    \* login page (React state of LoginPage and what connectMetaMask called)
    walletStatus,   \* useState<WalletStatus>
    errors,         \* useState<Errors>
    walletAddress,  \* useState<string | null>
    attempt,        \* the running connectMetaMask and what it did so far
    \* user registration (registerUserWithCID)
    roles,          \* address -> role number       (contract.roles)
    stored,         \* CIDs the content store holds of uploaded user documents
    regs            \* call -> record of a registerUserWithCID invocation

ledgerVars == <<owner, status, landPrices, pendingBuyer>>
transferVars == <<access, calls>>
aggVars == <<agg, tasks>>
clientVars == <<ops, metadataCID, registered>>
loginVars == <<walletStatus, errors, walletAddress, attempt>>
registerVars == <<roles, stored, regs>>

\* Sale status, as the contract's enum is named in statusToEnum.
StatusNames == {"Active", "ForSale", "PendingApproval", "Approved"}

\* On-chain price a listing may carry, in gwei
\* (1250000000 = 1.25 ETH, the price of RM 5000 at RM_PER_ETH).
ListPrices == {1250000000}

\* The encrypted title deed of a parcel (geranCid of listingLand).
GeranCid(l) == IF l = 1 THEN "geran1" ELSE IF l = 2 THEN "geran2" ELSE "geran3"
PrivateCIDs == {GeranCid(l) : l \in Lands}

\* ---------------------------------------------------------------- ledger
\* The contract is not part of the front-end sources; its transitions follow
\* the sale state machine of the specification (section 4.3).

\* list(price): Active -> ForSale, by the owner. A parcel whose sale was
\* approved is re-enterable as its new owner's Active parcel.
LedgerListLandForSale(l, p) ==
    /\ status[l] \in {"Active", "Approved"}
    /\ p > 0
    /\ status' = [status EXCEPT ![l] = "ForSale"]
    /\ landPrices' = [landPrices EXCEPT ![l] = p]
    /\ UNCHANGED <<owner, pendingBuyer>>

\* buyerCommits(funds): ForSale -> PendingApproval, pendingBuyer unset before.
LedgerRequestToBuy(l, b) ==
    /\ status[l] = "ForSale"
    /\ pendingBuyer[l] = NoAddress
    /\ b # owner[l]
    /\ status' = [status EXCEPT ![l] = "PendingApproval"]
    /\ pendingBuyer' = [pendingBuyer EXCEPT ![l] = b]
    /\ UNCHANGED <<owner, landPrices>>

\* cancel(): ForSale / PendingApproval -> Active, by the owner.
LedgerCancel(l) ==
    /\ status[l] \in {"ForSale", "PendingApproval"}
    /\ status' = [status EXCEPT ![l] = "Active"]
    /\ landPrices' = [landPrices EXCEPT ![l] = 0]
    /\ pendingBuyer' = [pendingBuyer EXCEPT ![l] = NoAddress]
    /\ UNCHANGED owner

\* ownerApproves(): the ledger lets only the current owner transfer, and only
\* to the buyer who committed.
LedgerCanTransfer(caller, l, b) ==
    /\ caller = owner[l]
    /\ status[l] = "PendingApproval"
    /\ pendingBuyer[l] = b

LedgerTransferLandOwnership(l, b) ==
    /\ owner' = [owner EXCEPT ![l] = b]
    /\ status' = [status EXCEPT ![l] = "Approved"]
    /\ landPrices' = [landPrices EXCEPT ![l] = 0]
    /\ pendingBuyer' = [pendingBuyer EXCEPT ![l] = NoAddress]

\* Transactions of other users of the ledger, on parcel l and on any parcel.
LedgerStepOn(l) ==
    \/ \E p \in ListPrices : LedgerListLandForSale(l, p)
    \/ \E b \in Addresses : LedgerRequestToBuy(l, b)
    \/ LedgerCancel(l)

LedgerStep == \E l \in Lands : LedgerStepOn(l)

\* ---------------------------------------------------------------- approvePurchase
\* What a finished invocation hands to its caller: nothing (Promise<void>
\* resolved) or the thrown error. Every throw of approvePurchase is a plain
\* Error (or whatever the client library raised) holding a message only.
NoResult == [name |-> "none"]
Void == [name |-> "void"]
Thrown(message) == [name |-> "Error", message |-> message]

IdleCall ==
    [pc |-> "idle", userAddress |-> NoAddress, landId |-> 0,
     buyerAddress |-> NoAddress, privateCID |-> "", tx |-> "none",
     offchain |-> <<>>, challengeFor |-> NoAddress, signedBy |-> NoAddress,
     silent |-> FALSE, result |-> NoResult]

\* Positions at which the invocation awaits a remote party.
AwaitingPcs == {"transferLandOwnership", "wait", "getAuthMessage", "transferOwnership"}
InFlight(c) == calls[c].pc \notin {"idle", "done"}

Throw(c, message) ==
    calls' = [calls EXCEPT ![c].pc = "done", ![c].result = Thrown(message)]

\* approvePurchase(landId, buyerAddress, privateCID) is invoked; the pages pass
\* the parcel's own geranCid as privateCID. Nothing in the function looks at
\* other invocations: there is no in-flight guard.
ApprovePurchase(c, l, b, cid) ==
    /\ calls[c].pc = "idle"
    /\ calls' = [calls EXCEPT ![c] =
            [IdleCall EXCEPT !.pc = "connectAccount", !.landId = l,
                             !.buyerAddress = b, !.privateCID = cid]]
    /\ UNCHANGED <<ledgerVars, access>>

\* const ws = await connectAccount(); if (!ws) throw ...
ApConnectAccount(c, ws) ==
    /\ calls[c].pc = "connectAccount"
    /\ IF ws = NoAddress
          THEN Throw(c, "MetaMask not connected")
          ELSE calls' = [calls EXCEPT ![c].pc = "transferLandOwnership",
                                      ![c].userAddress = ws]
    /\ UNCHANGED <<ledgerVars, access>>

\* ApSubmit as it would be without `await tx.wait()`: the off-chain phase
\* starts as soon as the transaction is submitted.
ApSubmitWithoutWait(c, accepted) ==
    /\ calls[c].pc = "transferLandOwnership"
    /\ ~calls[c].silent
    /\ IF accepted
          THEN calls' = [calls EXCEPT ![c].pc = "getAuthMessage", ![c].tx = "submitted"]
          ELSE calls' = [calls EXCEPT ![c].pc = "done",
                    ![c].result = [name |-> "Error", message |-> "transferLandOwnership rejected"]]
    /\ UNCHANGED <<owner, status, landPrices, pendingBuyer, access>>

\* const tx = await contract.transferLandOwnership(landId, buyerAddress);
ApSubmit(c, accepted) ==
    /\ calls[c].pc = "transferLandOwnership"
    /\ ~calls[c].silent
    /\ IF accepted
          THEN calls' = [calls EXCEPT ![c].pc = "wait", ![c].tx = "submitted"]
          ELSE Throw(c, "transferLandOwnership rejected")
    /\ UNCHANGED <<ledgerVars, access>>

\* await tx.wait(): the transaction is mined and the ledger applies it ...
ApWaitConfirmed(c) ==
    /\ calls[c].pc = "wait"
    /\ ~calls[c].silent
    /\ LedgerCanTransfer(calls[c].userAddress, calls[c].landId, calls[c].buyerAddress)
    /\ LedgerTransferLandOwnership(calls[c].landId, calls[c].buyerAddress)
    /\ calls' = [calls EXCEPT ![c].pc = "getAuthMessage", ![c].tx = "confirmed"]
    /\ UNCHANGED access

\* ... or it reverts (or is dropped) and tx.wait() rejects.
ApWaitFailed(c) ==
    /\ calls[c].pc = "wait"
    /\ ~calls[c].silent
    /\ calls' = [calls EXCEPT ![c].pc = "done", ![c].tx = "failed",
                              ![c].result = Thrown("transaction failed")]
    /\ UNCHANGED <<ledgerVars, access>>

\* signAuthMessage(userAddress, signer), first half:
\* const authResp = await kavach.getAuthMessage(address);
\* if (typeof authResp.message !== 'string') throw ...
\* challengeFor is the address the challenge was issued for.
ApGetAuthMessage(c, outcome) ==
    /\ calls[c].pc = "getAuthMessage"
    /\ ~calls[c].silent
    /\ LET called == [calls EXCEPT ![c].offchain = Append(@, "getAuthMessage")]
       IN  CASE outcome = "message" ->
                  calls' = [called EXCEPT ![c].pc = "signMessage",
                                          ![c].challengeFor = calls[c].userAddress]
             [] outcome = "noMessage" ->
                  calls' = [called EXCEPT ![c].pc = "done",
                        ![c].result = Thrown("No Kavach auth challenge found")]
             [] outcome = "raised" ->
                  calls' = [called EXCEPT ![c].pc = "done",
                        ![c].result = Thrown("getAuthMessage failed")]
    /\ UNCHANGED <<ledgerVars, access>>

\* signAuthMessage, second half: return signer.signMessage(authResp.message);
\* the signer is the one connectAccount returned, whose address is userAddress.
ApSignMessage(c, signed) ==
    /\ calls[c].pc = "signMessage"
    /\ LET called == [calls EXCEPT ![c].offchain = Append(@, "signMessage")]
       IN  IF signed
              THEN calls' = [called EXCEPT ![c].pc = "transferOwnership",
                                          ![c].signedBy = calls[c].userAddress]
              ELSE calls' = [called EXCEPT ![c].pc = "done",
                        ![c].result = Thrown("user rejected signing")]
    /\ UNCHANGED <<ledgerVars, access>>

\* The content store moves access to `to` when `from`, who signed the
\* challenge, holds it.
KavachCanTransfer(from, cid) == access[cid] = from

\* The signature handed to kavach.transferOwnership is one by `from` over the
\* challenge issued for `from`.
SignatureOf(c, from) == calls[c].challengeFor = from /\ calls[c].signedBy = from

\* kavach.transferOwnership as it would be called if the caller's own address
\* were passed as the receiver.
ApTransferOwnershipToCaller(c, outcome) ==
    /\ calls[c].pc = "transferOwnership"
    /\ ~calls[c].silent
    /\ LET called == [calls EXCEPT ![c].offchain = Append(@, "transferOwnership")]
       IN  CASE outcome = "granted" ->
                  /\ KavachCanTransfer(calls[c].userAddress, calls[c].privateCID)
                  /\ SignatureOf(c, calls[c].userAddress)
                  /\ access' = [access EXCEPT ![calls[c].privateCID] = calls[c].userAddress]
                  /\ calls' = [called EXCEPT ![c].pc = "done", ![c].result = Void]
             [] outcome = "errorResponse" ->
                  /\ calls' = [called EXCEPT ![c].pc = "done",
                        ![c].result = Thrown("access denied")]
                  /\ UNCHANGED access
             [] outcome = "raised" ->
                  /\ calls' = [called EXCEPT ![c].pc = "done",
                        ![c].result = Thrown("transferOwnership failed")]
                  /\ UNCHANGED access
    /\ UNCHANGED ledgerVars

\* const transferNFT = await kavach.transferOwnership(userAddress, privateCID,
\*     buyerAddress, signature, true); if (transferNFT?.error) throw new Error(...)
ApTransferOwnership(c, outcome) ==
    /\ calls[c].pc = "transferOwnership"
    /\ ~calls[c].silent
    /\ LET called == [calls EXCEPT ![c].offchain = Append(@, "transferOwnership")]
       IN  CASE outcome = "granted" ->
                  /\ KavachCanTransfer(calls[c].userAddress, calls[c].privateCID)
                  /\ SignatureOf(c, calls[c].userAddress)
                  /\ access' = [access EXCEPT ![calls[c].privateCID] = calls[c].buyerAddress]
                  /\ calls' = [called EXCEPT ![c].pc = "done", ![c].result = Void]
             [] outcome = "errorResponse" ->
                  /\ calls' = [called EXCEPT ![c].pc = "done",
                        ![c].result = Thrown("access denied")]
                  /\ UNCHANGED access
             [] outcome = "raised" ->
                  /\ calls' = [called EXCEPT ![c].pc = "done",
                        ![c].result = Thrown("transferOwnership failed")]
                  /\ UNCHANGED access
    /\ UNCHANGED ledgerVars

\* A remote party accepts the awaited request and never answers. No await of
\* approvePurchase carries a timeout, so nothing resumes the invocation.
ApNeverAnswered(c) ==
    /\ calls[c].pc \in AwaitingPcs
    /\ ~calls[c].silent
    /\ calls' = [calls EXCEPT ![c].silent = TRUE]
    /\ UNCHANGED <<ledgerVars, access>>

\* The caller has the outcome; the slot is free for another invocation.
ApSettled(c) ==
    /\ calls[c].pc = "done"
    /\ calls' = [calls EXCEPT ![c] = IdleCall]
    /\ UNCHANGED <<ledgerVars, access>>

\* The steps of one invocation after its start.
ApStep(c) ==
    \/ \E ws \in Addresses \cup {NoAddress} : ApConnectAccount(c, ws)
    \/ \E accepted \in BOOLEAN : ApSubmit(c, accepted)
    \/ ApWaitConfirmed(c)
    \/ ApWaitFailed(c)
    \/ \E outcome \in {"message", "noMessage", "raised"} : ApGetAuthMessage(c, outcome)
    \/ \E signed \in BOOLEAN : ApSignMessage(c, signed)
    \/ \E outcome \in {"granted", "errorResponse", "raised"} : ApTransferOwnership(c, outcome)

\* ---------------------------------------------------------------- content store documents
\* Number.prototype.toFixed(2) of an amount given in hundredths.
Pad2(n) == IF n < 10 THEN "0" \o ToString(n) ELSE ToString(n)
ToFixed2(hundredths) == ToString(hundredths \div 100) \o "." \o Pad2(hundredths % 100)

\* fetchAllLands: parseFloat(formatEther(priceWei)) * RM_PER_ETH, then
\* toFixed(2), which rounds the hundredths half up. With the price in gwei the
\* amount is units * RM_PER_ETH / UnitsPerEth ringgit; the factor common to
\* RM_PER_ETH * 100 and UnitsPerEth is taken out before multiplying, which
\* keeps the products within TLC's integers.
RM_PER_ETH == 4000
UnitsPerEth == 1000000000
CommonFactor == 400000
\* The amount in hundredths of a ringgit, rounded half up.
PriceHundredthsOf(units) ==
    LET num == (RM_PER_ETH * 100) \div CommonFactor
        den == UnitsPerEth \div CommonFactor
    IN  (units * num + den \div 2) \div den
PriceRMOf(units) == ToFixed2(PriceHundredthsOf(units))

\* statusToEnum: the ledger reports the status as the enum's number.
StatusToEnum(name) ==
    CASE name = "Active" -> 0
      [] name = "ForSale" -> 1
      [] name = "PendingApproval" -> 2
      [] name = "Approved" -> 3

\* CIDs the ledger holds for a parcel: landOnchain.metadataCID and the
\* publicCID that getLand returns as its third value.
MetadataCID(l) == "meta" \o ToString(l)
PublicCID(l) == "pub" \o ToString(l)

GatewayBase == "https://gateway.lighthouse.storage/ipfs/"

\* jsonMeta = null
Null == [null |-> TRUE]

\* JSON bodies a gateway may serve: for getYourLands / fetchAllLands a listing
\* document (filled in, or with every field the empty string) ...
ListingDocs ==
    { [titleNumber |-> "GRN 1", landType |-> "Residential", username |-> "Ali",
       priceRM |-> "5000", area |-> "100 m2", geranCid |-> "geran1",
       timestamp |-> "2025-01-01T00:00:00.000Z"],
      [titleNumber |-> "", landType |-> "", username |-> "", priceRM |-> "",
       area |-> "", geranCid |-> "", timestamp |-> ""] }
\* ... for getMyLands an {address, description} document ...
AddressDocs ==
    { [address |-> "Lot 5", description |-> "farm"],
      [address |-> "N/A", description |-> "Unable to load metadata"] }
\* ... and the JSON literal null, which parses without error.
DocsOf(kind) == IF kind = "getMyLands" THEN AddressDocs ELSE ListingDocs
BodiesOf(kind) == DocsOf(kind) \cup {Null}

\* ---------------------------------------------------------------- aggregation
Kinds == {"getMyLands", "getYourLands", "fetchAllLands"}

\* getMyLands walks its `gateways` array; getYourLands and fetchAllLands make
\* one fetch to one gateway.
GatewayCount(kind) == IF kind = "getMyLands" THEN NumGateways ELSE 1

IdleAgg ==
    [pc |-> "idle", kind |-> "", userAddress |-> NoAddress, landIds |-> <<>>,
     settled |-> <<>>, rejectedBy |-> 0, result |-> <<>>]

NoRecord == [landId |-> ""]

\* The locals of one fetchPromises task.
NewTask(id) ==
    [pc |-> "getLand", id |-> id, statusCode |-> 0, ownerAddr |-> "",
     metadataCID |-> "", publicCID |-> "", priceRM |-> "", contacted |-> <<>>,
     jsonMeta |-> Null, silent |-> FALSE, out |-> NoRecord]

\* Orders in which the ledger may return a set of ids.
OrderingsOf(S) ==
    {seq \in [1..Cardinality(S) -> S] : \A i, j \in 1..Cardinality(S) : seq[i] = seq[j] => i = j}

\* contract.getOwnedLands(userAddress) / contract.getAllLandIds()
LedgerIds(kind, user) ==
    IF kind = "fetchAllLands" THEN Lands ELSE {l \in Lands : owner[l] = user}

\* The record returned when jsonMeta is null.
FailureRecord(kind, t) ==
    CASE kind = "getMyLands" ->
            [landId |-> ToString(t.id), status |-> t.statusCode,
             address |-> "N/A", description |-> "Unable to load metadata"]
      [] kind = "getYourLands" ->
            [landId |-> ToString(t.id), status |-> t.statusCode, titleNumber |-> "",
             landType |-> "", username |-> "", priceRM |-> "", area |-> "",
             geranCid |-> "", geranUrl |-> "", timestamp |-> "",
             owner |-> t.ownerAddr, metadataCID |-> t.metadataCID]
      [] kind = "fetchAllLands" ->
            [landId |-> ToString(t.id), status |-> t.statusCode, titleNumber |-> "",
             landType |-> "", username |-> "", area |-> "", geranCid |-> "",
             geranUrl |-> "", timestamp |-> "", owner |-> t.ownerAddr,
             metadataCID |-> t.metadataCID, priceRM |-> t.priceRM]

\* The record returned when jsonMeta holds a document.
ValueRecord(kind, t, doc) ==
    CASE kind = "getMyLands" ->
            [landId |-> ToString(t.id), status |-> t.statusCode,
             address |-> doc.address, description |-> doc.description]
      [] kind = "getYourLands" ->
            [landId |-> ToString(t.id), status |-> t.statusCode,
             titleNumber |-> doc.titleNumber, landType |-> doc.landType,
             username |-> doc.username, priceRM |-> doc.priceRM, area |-> doc.area,
             geranCid |-> doc.geranCid, geranUrl |-> GatewayBase \o doc.geranCid,
             timestamp |-> doc.timestamp, owner |-> t.ownerAddr,
             metadataCID |-> t.metadataCID]
      [] kind = "fetchAllLands" ->
            [landId |-> ToString(t.id), status |-> t.statusCode,
             titleNumber |-> doc.titleNumber, landType |-> doc.landType,
             username |-> doc.username, area |-> doc.area,
             geranCid |-> doc.geranCid, geranUrl |-> GatewayBase \o doc.geranCid,
             timestamp |-> doc.timestamp, owner |-> t.ownerAddr,
             metadataCID |-> t.metadataCID, priceRM |-> t.priceRM]

\* if (!jsonMeta) return {...}; ... return {...};
Assemble(kind, t) ==
    IF t.jsonMeta = Null THEN FailureRecord(kind, t) ELSE ValueRecord(kind, t, t.jsonMeta)

\* The task returns its record.
Finish(kind, t) == [t EXCEPT !.pc = "done", !.out = Assemble(kind, t)]

\* The gateway loop as it would be without its `break`: a success does not
\* stop the walk, later gateways are still contacted.
ResolveStepWithoutBreak(kind, t, outcome, body) ==
    LET g == Len(t.contacted) + 1
        logged == [t EXCEPT !.contacted = Append(@, [gateway |-> g, outcome |-> outcome, body |-> body])]
        got == IF outcome = "ok" THEN [logged EXCEPT !.jsonMeta = body] ELSE logged
    IN  IF g < GatewayCount(kind)
           THEN got
           ELSE [got EXCEPT !.pc = "done",
                    !.out = IF got.jsonMeta = [null |-> TRUE]
                               THEN FailureRecord(kind, got)
                               ELSE ValueRecord(kind, got, got.jsonMeta)]

\* One pass of the gateway loop (getMyLands), or the single try block
\* (getYourLands, fetchAllLands): fetch the next gateway; on resp.ok take
\* resp.json() and stop; on a thrown fetch, a non-ok status or a body that
\* does not parse go on to the next gateway, if there is one.
ResolveStep(kind, t, outcome, body) ==
    LET g == Len(t.contacted) + 1
        logged == [t EXCEPT !.contacted = Append(@, [gateway |-> g, outcome |-> outcome, body |-> body])]
    IN  IF outcome = "ok"
           THEN Finish(kind, [logged EXCEPT !.jsonMeta = body])
           ELSE IF g < GatewayCount(kind) THEN logged ELSE Finish(kind, logged)

\* Promise.all in completion order instead of input order.
PromiseAllInSettleOrder(ts, settled) == [k \in 1..Len(settled) |-> ts[settled[k]].out]

\* Promise.all(fetchPromises): the records in the order of the promises.
PromiseAll(ts, settled) == [i \in 1..Len(ts) |-> ts[i].out]

\* Outcomes of one fetch that leave jsonMeta untouched: fetch() throws, the
\* response is not ok, resp.json() throws.
FailedOutcomes == {"networkError", "notOk", "badJson"}

TaskRunning(i) == agg.pc = "running" /\ i \in DOMAIN tasks /\ ~tasks[i].silent

\* A task's promise rejects: Promise.all rejects with it and the aggregation
\* throws to its caller.
RejectedBy(i) ==
    /\ agg' = [agg EXCEPT !.pc = "thrown", !.rejectedBy = i]
    /\ tasks' = [tasks EXCEPT ![i].pc = "rejected"]

\* getMyLands(contract, userAddress) / getYourLands(contract, userAddress) /
\* fetchAllLands(contract) is invoked.
AggInvoke(kind, user) ==
    /\ agg.pc = "idle"
    /\ agg' = [IdleAgg EXCEPT !.pc = "listing", !.kind = kind,
                              !.userAddress = IF kind = "fetchAllLands" THEN NoAddress ELSE user]
    /\ UNCHANGED <<ledgerVars, transferVars, tasks>>

\* const landIds = await contract.getOwnedLands(userAddress) / getAllLandIds();
\* const fetchPromises = landIds.map(async (id) => ...)
AggListIds(ids) ==
    /\ agg.pc = "listing"
    /\ ids \in OrderingsOf(LedgerIds(agg.kind, agg.userAddress))
    /\ agg' = [agg EXCEPT !.pc = "running", !.landIds = ids]
    /\ tasks' = [i \in 1..Len(ids) |-> NewTask(ids[i])]
    /\ UNCHANGED <<ledgerVars, transferVars>>

\* The id query itself rejects.
AggListIdsFailed ==
    /\ agg.pc = "listing"
    /\ agg' = [agg EXCEPT !.pc = "thrown", !.rejectedBy = 0]
    /\ UNCHANGED <<ledgerVars, transferVars, tasks>>

\* const [landOnchain, owner, publicCID] = await contract.getLand(id);
TaskGetLand(i, answered) ==
    /\ TaskRunning(i)
    /\ tasks[i].pc = "getLand"
    /\ IF answered
          THEN /\ tasks' = [tasks EXCEPT ![i] =
                      [@ EXCEPT !.pc = IF agg.kind = "fetchAllLands" THEN "landPrices" ELSE "fetch",
                                !.statusCode = StatusToEnum(status[tasks[i].id]),
                                !.ownerAddr = owner[tasks[i].id],
                                !.metadataCID = MetadataCID(tasks[i].id),
                                !.publicCID = PublicCID(tasks[i].id)]]
               /\ UNCHANGED agg
          ELSE RejectedBy(i)
    /\ UNCHANGED <<ledgerVars, transferVars>>

\* fetchAllLands: const priceWei = await contract.landPrices(idBigint); ...
\* const priceRM = PriceRM.toFixed(2);
TaskLandPrices(i, answered) ==
    /\ TaskRunning(i)
    /\ tasks[i].pc = "landPrices"
    /\ IF answered
          THEN /\ tasks' = [tasks EXCEPT ![i].pc = "fetch",
                                         ![i].priceRM = PriceRMOf(landPrices[tasks[i].id])]
               /\ UNCHANGED agg
          ELSE RejectedBy(i)
    /\ UNCHANGED <<ledgerVars, transferVars>>

\* const resp = await fetch(gatewayURL, { cache: "no-store" });
\* if (resp.ok) jsonMeta = await resp.json(); and the return that follows.
TaskFetch(i, outcome, body) ==
    /\ TaskRunning(i)
    /\ tasks[i].pc = "fetch"
    /\ LET t == ResolveStep(agg.kind, tasks[i], outcome, body)
       IN  /\ tasks' = [tasks EXCEPT ![i] = t]
           /\ agg' = IF t.pc = "done" THEN [agg EXCEPT !.settled = Append(@, i)] ELSE agg
    /\ UNCHANGED <<ledgerVars, transferVars>>

\* The ledger or a gateway accepts the awaited request and never answers. No
\* call of a task carries a timeout or an abort signal.
TaskNeverAnswered(i) ==
    /\ TaskRunning(i)
    /\ tasks[i].pc \in {"getLand", "landPrices", "fetch"}
    /\ tasks' = [tasks EXCEPT ![i].silent = TRUE]
    /\ UNCHANGED <<ledgerVars, transferVars, agg>>

\* return Promise.all(fetchPromises), once every task has returned.
AggReturn ==
    /\ agg.pc = "running"
    /\ \A i \in DOMAIN tasks : tasks[i].pc = "done"
    /\ agg' = [agg EXCEPT !.pc = "returned", !.result = PromiseAll(tasks, agg.settled)]
    /\ UNCHANGED <<ledgerVars, transferVars, tasks>>

\* The caller has the outcome.
AggSettled ==
    /\ agg.pc \in {"returned", "thrown"}
    /\ agg' = IdleAgg
    /\ tasks' = <<>>
    /\ UNCHANGED <<ledgerVars, transferVars>>

\* The steps by which a running aggregation advances.
TaskStep(i) ==
    \/ \E answered \in BOOLEAN : TaskGetLand(i, answered)
    \/ \E answered \in BOOLEAN : TaskLandPrices(i, answered)
    \/ \E outcome \in FailedOutcomes : TaskFetch(i, outcome, Null)
    \/ \E body \in BodiesOf(agg.kind) : TaskFetch(i, "ok", body)

AggStep ==
    \/ \E ids \in UNION {OrderingsOf(S) : S \in SUBSET Lands} : AggListIds(ids)
    \/ AggListIdsFailed
    \/ \E i \in 1..MaxLands : TaskStep(i)
    \/ AggReturn

\* ---------------------------------------------------------------- price conversion
\* Text typed into a price field, as a sequence of characters. parseFloat
\* reads an optional sign, then "Infinity" or decimal digits with an optional
\* fraction, and stops at the first character that fits neither; text that
\* starts with none of these is NaN. (Exponents and leading blanks, which
\* parseFloat also reads, occur in none of the texts below.)
PriceTexts ==
    { <<>>,
      <<"a", "b", "c">>,
      <<"0">>,
      <<"-", "5", "0", "0", "0">>,
      <<"I", "n", "f", "i", "n", "i", "t", "y">>,
      <<"5", "0", "0", "0">>,
      <<"0", ".", "0", "0", "1">>,
      <<"5", "0", "0", "0", ".", "0", "0", "4">> }

DigitChars == {"0", "1", "2", "3", "4", "5", "6", "7", "8", "9"}
DigitValue(ch) == CHOOSE d \in 0..9 : ToString(d) = ch
InfinityText == <<"I", "n", "f", "i", "n", "i", "t", "y">>

\* A JavaScript number: NaN, an infinity, or sign * digits * 10^exp.
NaN == [kind |-> "NaN"]
Infinite(sign) == [kind |-> "Infinity", sign |-> sign]
Finite(sign, digits, exp) == [kind |-> "finite", sign |-> sign, digits |-> digits, exp |-> exp]

\* Length of the longest prefix of `text` made of decimal digits.
RECURSIVE DigitPrefix(_)
DigitPrefix(text) ==
    IF text # <<>> /\ Head(text) \in DigitChars THEN 1 + DigitPrefix(Tail(text)) ELSE 0

\* The natural number written by a sequence of decimal digits.
RECURSIVE DigitsValue(_)
DigitsValue(text) ==
    IF text = <<>> THEN 0
    ELSE 10 * DigitsValue(SubSeq(text, 1, Len(text) - 1)) + DigitValue(text[Len(text)])

ParseFloat(text) ==
    LET negative == text # <<>> /\ Head(text) = "-"
        signed == text # <<>> /\ Head(text) \in {"-", "+"}
        sign == IF negative THEN -1 ELSE 1
        body == IF signed THEN Tail(text) ELSE text
        wholeLen == DigitPrefix(body)
        afterWhole == SubSeq(body, wholeLen + 1, Len(body))
        hasPoint == afterWhole # <<>> /\ Head(afterWhole) = "."
        fraction == IF hasPoint THEN Tail(afterWhole) ELSE <<>>
        fractionLen == DigitPrefix(fraction)
    IN  IF Len(body) >= Len(InfinityText) /\ SubSeq(body, 1, Len(InfinityText)) = InfinityText
        THEN Infinite(sign)
        ELSE IF wholeLen + fractionLen = 0
        THEN NaN
        ELSE Finite(sign,
                    DigitsValue(SubSeq(body, 1, wholeLen) \o SubSeq(fraction, 1, fractionLen)),
                    -fractionLen)

\* rmValue / RM_PER_ETH. The quotient is taken exactly: 10^6 is a multiple of
\* the rate, so x / 4000 = x * 250 * 10^-6. (The binary rounding of the
\* division is not part of the model: the quotient is the decimal one.)
RateScale == 1000000
DividedByRate(x) ==
    IF x.kind = "finite"
    THEN Finite(x.sign, x.digits * (RateScale \div RM_PER_ETH), x.exp - 6)
    ELSE x

\* ethValue <= 0, which is false for NaN.
AtMostZero(x) ==
    CASE x.kind = "NaN" -> FALSE
      [] x.kind = "Infinity" -> x.sign < 0
      [] x.kind = "finite" -> x.digits = 0 \/ x.sign < 0

\* The decimal digits of a natural number, most significant first.
RECURSIVE DigitsOf(_)
DigitsOf(n) ==
    IF n < 10 THEN <<ToString(n)>> ELSE DigitsOf(n \div 10) \o <<ToString(n % 10)>>

RECURSIVE Zeros(_)
Zeros(n) == IF n <= 0 THEN <<>> ELSE <<"0">> \o Zeros(n - 1)

\* A finite number without the trailing zeros of its digits.
RECURSIVE Stripped(_)
Stripped(x) ==
    IF x.digits # 0 /\ x.digits % 10 = 0
    THEN Stripped(Finite(x.sign, x.digits \div 10, x.exp + 1))
    ELSE x

\* Number.prototype.toString(): with k significant digits and the decimal
\* point after the n-th of them, plain digits for k <= n <= 21, a fraction
\* for 0 < n <= 21 and for -6 < n <= 0, and exponent notation otherwise.
NumberToString(x) ==
    CASE x.kind = "NaN" -> <<"N", "a", "N">>
      [] x.kind = "Infinity" -> (IF x.sign < 0 THEN <<"-">> ELSE <<>>) \o InfinityText
      [] x.kind = "finite" ->
            IF x.digits = 0 THEN <<"0">>
            ELSE LET s == Stripped(x)
                     d == DigitsOf(s.digits)
                     k == Len(d)
                     n == k + s.exp
                     minus == IF s.sign < 0 THEN <<"-">> ELSE <<>>
                     e == n - 1
                 IN  minus \o
                     ( IF k <= n /\ n <= 21 THEN d \o Zeros(n - k)
                       ELSE IF 0 < n /\ n <= 21
                       THEN SubSeq(d, 1, n) \o <<".">> \o SubSeq(d, n + 1, k)
                       ELSE IF -6 < n /\ n <= 0
                       THEN <<"0", ".">> \o Zeros(-n) \o d
                       ELSE <<d[1]>>
                            \o (IF k > 1 THEN <<".">> \o SubSeq(d, 2, k) ELSE <<>>)
                            \o <<"e">> \o (IF e < 0 THEN <<"-">> ELSE <<"+">>)
                            \o DigitsOf(IF e < 0 THEN -e ELSE e) )

\* ethers.parseEther(text) = parseUnits(text, 18): the text has to be an
\* optional minus, digits, an optional point and digits, with at least one
\* digit and nothing but zeros after the 18th decimal; anything else throws.
\* The amount comes back in gwei: the amounts the operations below produce
\* have at most nine decimals.
EtherDecimals == 18
GweiDecimals == 9
ParseEtherFailed == [ok |-> FALSE]
ParseEther(text) ==
    LET negative == text # <<>> /\ Head(text) = "-"
        body == IF negative THEN Tail(text) ELSE text
        wholeLen == DigitPrefix(body)
        afterWhole == SubSeq(body, wholeLen + 1, Len(body))
        hasPoint == afterWhole # <<>> /\ Head(afterWhole) = "."
        decimals == IF hasPoint THEN Tail(afterWhole) ELSE <<>>
        decimalsLen == DigitPrefix(decimals)
        padded == SubSeq(decimals \o Zeros(GweiDecimals), 1, GweiDecimals)
        tooMany == \E i \in 1..decimalsLen : i > EtherDecimals /\ decimals[i] # "0"
        gwei == DigitsValue(SubSeq(body, 1, wholeLen)) * UnitsPerEth + DigitsValue(padded)
    IN  IF \/ decimalsLen # Len(decimals)
           \/ (~hasPoint /\ afterWhole # <<>>)
           \/ wholeLen + decimalsLen = 0
           \/ tooMany
        THEN ParseEtherFailed
        ELSE [ok |-> TRUE, wei |-> IF negative THEN -gwei ELSE gwei]

\* The conversion every price-carrying operation performs on its text. The
\* guard is the `if (ethValue <= 0) throw` of listingLand, listLandForSale
\* and requestToBuyLand, with the operation's own message; handleSave has no
\* guard (guardMessage = ""). What comes back is the amount for the ledger
\* call or the error thrown.
Converted(priceWei) == [ok |-> TRUE, wei |-> priceWei]
ConversionThrew(message) == [ok |-> FALSE, message |-> message]
ToPriceWei(text, guardMessage) ==
    LET rmValue == ParseFloat(text)
        ethValue == DividedByRate(rmValue)
        parsed == ParseEther(NumberToString(ethValue))
    IN  IF guardMessage # "" /\ AtMostZero(ethValue)
        THEN ConversionThrew(guardMessage)
        ELSE IF ~parsed.ok
        THEN ConversionThrew("invalid FixedNumber string value")
        ELSE Converted(parsed.wei)

\* fetchAllLands' priceRM as the page shows it, character by character:
\* PriceRM.toFixed(2).
PriceRMText(units) ==
    LET hundredths == PriceHundredthsOf(units)
    IN  DigitsOf(hundredths \div 100) \o <<".">>
            \o <<ToString((hundredths % 100) \div 10), ToString(hundredths % 10)>>

\* ---------------------------------------------------------------- price-carrying operations
\* The ledger calls the operations make, with the account that signs them.
NoCall == [fn |-> "none"]
ListCall(from, l, priceWei) ==
    [fn |-> "listLandForSale", from |-> from, landId |-> l, priceWei |-> priceWei]
BuyCall(from, l, priceWei) ==
    [fn |-> "requestToBuy", from |-> from, landId |-> l, value |-> priceWei]
\* updateLandDetails as it would be if the modal also sent a document CID.
UpdateCallWithCid(from, l, newStatus, priceWei) ==
    [fn |-> "updateLandDetails", from |-> from, landId |-> l,
     status |-> StatusToEnum(newStatus), priceWei |-> priceWei, metadataCID |-> "edited"]
UpdateCall(from, l, newStatus, priceWei) ==
    [fn |-> "updateLandDetails", from |-> from, landId |-> l,
     status |-> StatusToEnum(newStatus), priceWei |-> priceWei]
RegisterCall(from, geranCid, publicCid, priceWei) ==
    [fn |-> "registerLand", from |-> from, to |-> from, geranCid |-> geranCid,
     metadataCID |-> publicCid, priceWei |-> priceWei]

\* What listLandForSale, requestToBuyLand and listingLand resolve to.
TransactionResponse == [hash |-> "0xtx"]

\* An operation slot: the arguments, the account of the connected wallet, the
\* requests awaited so far (net, in the order they were issued), the ledger
\* call and the state of its transaction, what the caller received (result),
\* and for handleSave what console.error logged and whether onClose ran.
IdleOp ==
    [name |-> "idle", pc |-> "idle", userAddress |-> NoAddress, landId |-> 0,
     priceRM |-> <<>>, newStatus |-> "Active", net |-> <<>>, call |-> NoCall,
     tx |-> "none", result |-> NoResult, logged |-> NoResult, closed |-> FALSE]

OpThrow(c, message) ==
    ops' = [ops EXCEPT ![c].pc = "done", ![c].result = Thrown(message)]

\* handleSave's catch: the error goes to the console, the caller gets nothing.
OpLog(c, message) ==
    ops' = [ops EXCEPT ![c].pc = "done", ![c].result = Void, ![c].logged = Thrown(message)]

\* The operation calls the contract method and awaits it.
OpIssue(c, userAddress, call) ==
    ops' = [ops EXCEPT ![c].pc = "submit", ![c].userAddress = userAddress,
                       ![c].call = call, ![c].net = Append(@, call.fn)]

\* listLandForSale(landId, priceRM) up to `await connectAccount()`.
ListLandForSale(c, l, priceRM) ==
    /\ ops[c].pc = "idle"
    /\ ops' = [ops EXCEPT ![c] = [IdleOp EXCEPT !.name = "listLandForSale",
                                               !.pc = "connectAccount", !.landId = l,
                                               !.priceRM = priceRM,
                                               !.net = <<"connectAccount">>]]
    /\ UNCHANGED <<ledgerVars, metadataCID, registered>>

\* requestToBuyLand(landId, priceRM) up to `await connectAccount()`.
RequestToBuyLand(c, l, priceRM) ==
    /\ ops[c].pc = "idle"
    /\ ops' = [ops EXCEPT ![c] = [IdleOp EXCEPT !.name = "requestToBuyLand",
                                               !.pc = "connectAccount", !.landId = l,
                                               !.priceRM = priceRM,
                                               !.net = <<"connectAccount">>]]
    /\ UNCHANGED <<ledgerVars, metadataCID, registered>>

\* connectAccount() answered, in listLandForSale and requestToBuyLand: without
\* a wallet the operation throws; with one it converts the price, throws on
\* the guard or on parseEther, and otherwise calls the contract.
OpConnectAccount(c, ws) ==
    /\ ops[c].name \in {"listLandForSale", "requestToBuyLand"}
    /\ ops[c].pc = "connectAccount"
    /\ LET list == ops[c].name = "listLandForSale"
           conv == ToPriceWei(ops[c].priceRM,
                              IF list THEN "Price must be positive" ELSE "Invalid price")
       IN  IF ws = NoAddress
           THEN OpThrow(c, "MetaMask not connected")
           ELSE IF ~conv.ok
           THEN OpThrow(c, conv.message)
           ELSE OpIssue(c, ws, IF list THEN ListCall(ws, ops[c].landId, conv.wei)
                                       ELSE BuyCall(ws, ops[c].landId, conv.wei))
    /\ UNCHANGED <<ledgerVars, metadataCID, registered>>

\* listingLand(titleNumber, landType, priceRM, geranFile, username) up to
\* `await connectAccount()`. The parcel it registers gets the next land id.
ListingAwaits == <<"connectAccount", "getAuthMessage", "signMessage", "uploadEncrypted", "upload">>
NextLandId == MaxLands + Len(registered) + 1
ListingLand(c, priceRM) ==
    /\ ops[c].pc = "idle"
    /\ Len(registered) + Cardinality({d \in OpIds : ops[d].name = "listingLand"})
            < MaxRegistrations
    /\ ops' = [ops EXCEPT ![c] = [IdleOp EXCEPT !.name = "listingLand",
                                               !.pc = "connectAccount",
                                               !.landId = NextLandId,
                                               !.priceRM = priceRM,
                                               !.net = <<"connectAccount">>]]
    /\ UNCHANGED <<ledgerVars, metadataCID, registered>>

\* connectAccount() answered in listingLand: without a wallet it throws (the
\* source's message is in Japanese: "MetaMask connection failed"), with one it
\* asks the access-control service for a challenge.
LgConnectAccount(c, ws) ==
    /\ ops[c].name = "listingLand"
    /\ ops[c].pc = "connectAccount"
    /\ IF ws = NoAddress
       THEN OpThrow(c, "MetaMask connection failed")
       ELSE ops' = [ops EXCEPT ![c].pc = "getAuthMessage", ![c].userAddress = ws,
                               ![c].net = Append(@, "getAuthMessage")]
    /\ UNCHANGED <<ledgerVars, metadataCID, registered>>

\* One of the later awaited requests of listingLand answered: the access
\* challenge (kavach.getAuthMessage), its signature, the encrypted upload of
\* the deed, the upload of the public document. A failed one ends the
\* operation; otherwise the next is issued, and after the last upload the
\* price is converted and registerLand is called.
LgAnswered(c, i, ok) ==
    /\ ops[c].name = "listingLand"
    /\ i > 1
    /\ ops[c].pc = ListingAwaits[i]
    /\ LET conv == ToPriceWei(ops[c].priceRM, "Price must be at least MYR 4000")
           l == ops[c].landId
           ws == ops[c].userAddress
       IN  IF ~ok
           THEN OpThrow(c, ListingAwaits[i] \o " failed")
           ELSE IF i < Len(ListingAwaits)
           THEN ops' = [ops EXCEPT ![c].pc = ListingAwaits[i + 1],
                                   ![c].net = Append(@, ListingAwaits[i + 1])]
           ELSE IF ~conv.ok
           THEN OpThrow(c, conv.message)
           ELSE OpIssue(c, ws, RegisterCall(ws, GeranCid(l), PublicCID(l), conv.wei))
    /\ UNCHANGED <<ledgerVars, metadataCID, registered>>

\* handleSave() of the modal opened on parcel l, with the status and price
\* chosen in its fields and the contract prop (NoAddress: no contract), up to
\* `await contract.updateLandDetails(...)`: without a contract it returns at
\* once; an error of the conversion, or of encoding a negative amount as
\* uint256, is caught and logged.
ModalStatuses == {"Active", "ForSale"}
HandleSave(c, contract, l, newStatus, newPrice) ==
    /\ ops[c].pc = "idle"
    /\ LET conv == ToPriceWei(newPrice, "")
           started == [IdleOp EXCEPT !.name = "handleSave", !.landId = l,
                                     !.priceRM = newPrice, !.newStatus = newStatus]
           caught(message) == [started EXCEPT !.pc = "done", !.result = Void,
                                              !.logged = Thrown(message)]
       IN  ops' = [ops EXCEPT ![c] =
                IF contract = NoAddress
                THEN [started EXCEPT !.pc = "done", !.result = Void]
                ELSE IF ~conv.ok THEN caught(conv.message)
                ELSE IF conv.wei < 0 THEN caught("value out-of-bounds")
                ELSE [started EXCEPT
                        !.pc = "submit", !.userAddress = contract,
                        !.call = UpdateCall(contract, l, newStatus, conv.wei),
                        !.net = <<"updateLandDetails">>]]
    /\ UNCHANGED <<ledgerVars, metadataCID, registered>>

\* updateLandDetails(landId, status, price) on the ledger: the owner's call
\* sets the parcel's status and price to the ones it names.
EnumToStatus(n) == CHOOSE name \in StatusNames : StatusToEnum(name) = n
LedgerUpdateLandDetails(caller, l, st, p) ==
    /\ caller = owner[l]
    /\ status' = [status EXCEPT ![l] = EnumToStatus(st)]
    /\ landPrices' = [landPrices EXCEPT ![l] = p]
    /\ UNCHANGED <<owner, pendingBuyer>>

\* registerLand(to, geranCid, publicCid, priceWei) on the ledger: a new parcel.
LedgerRegisterLand(call) ==
    registered' = Append(registered, [owner |-> call.to, geranCid |-> call.geranCid,
                                      metadataCID |-> call.metadataCID,
                                      price |-> call.priceWei])

\* The CIDs of the registered parcels after a call was mined: a confirmed call
\* that names a parcel and a metadataCID sets that parcel's CID.
CidsAfter(call, accepted) ==
    IF accepted /\ {"landId", "metadataCID"} \subseteq DOMAIN call
    THEN [metadataCID EXCEPT ![call.landId] = call.metadataCID]
    ELSE metadataCID

\* What the ledger, as it stands, requires of a call: list and requestToBuy
\* are the sale state machine's transitions (the signer is the owner; the
\* funds equal the price), updateLandDetails is the owner's.
LedgerAccepts(call) ==
    CASE call.fn = "listLandForSale" ->
            /\ call.from = owner[call.landId]
            /\ ENABLED LedgerListLandForSale(call.landId, call.priceWei)
      [] call.fn = "requestToBuy" ->
            /\ call.value = landPrices[call.landId]
            /\ ENABLED LedgerRequestToBuy(call.landId, call.from)
      [] call.fn = "updateLandDetails" -> call.from = owner[call.landId]
      [] call.fn = "registerLand" -> TRUE

\* The contract call answered: the transaction was sent (the three exported
\* operations return it without waiting, handleSave goes on to tx.wait()), or
\* the wallet or the node refused it. The signer estimates the gas before it
\* sends, which fails for a call the ledger would reject as it stands.
OpSubmit(c, accepted) ==
    /\ ops[c].pc = "submit"
    /\ accepted => LedgerAccepts(ops[c].call)
    /\ IF ~accepted
       THEN IF ops[c].name = "handleSave" THEN OpLog(c, "transaction rejected")
                                          ELSE OpThrow(c, "transaction rejected")
       ELSE IF ops[c].name = "handleSave"
       THEN ops' = [ops EXCEPT ![c].pc = "wait", ![c].tx = "pending",
                               ![c].net = Append(@, "wait")]
       ELSE ops' = [ops EXCEPT ![c].pc = "done", ![c].tx = "pending",
                               ![c].result = TransactionResponse]
    /\ UNCHANGED <<ledgerVars, metadataCID, registered>>

\* The ledger executes the transaction of operation c: it is confirmed and
\* takes effect, or it reverts and changes nothing. list and requestToBuy are
\* confirmed exactly when the ledger accepts them; what else
\* updateLandDetails and registerLand require is the contract's affair.
MineOp(c, accepted) ==
    /\ ops[c].tx = "pending"
    /\ LET call == ops[c].call
       IN  /\ accepted => LedgerAccepts(call)
           /\ call.fn \in {"listLandForSale", "requestToBuy"} => accepted = LedgerAccepts(call)
           /\ CASE ~accepted -> UNCHANGED <<ledgerVars, registered>>
                [] accepted /\ call.fn = "listLandForSale" ->
                    LedgerListLandForSale(call.landId, call.priceWei) /\ UNCHANGED registered
                [] accepted /\ call.fn = "requestToBuy" ->
                    LedgerRequestToBuy(call.landId, call.from) /\ UNCHANGED registered
                [] accepted /\ call.fn = "updateLandDetails" ->
                    /\ LedgerUpdateLandDetails(call.from, call.landId, call.status, call.priceWei)
                    /\ UNCHANGED registered
                [] accepted /\ call.fn = "registerLand" ->
                    LedgerRegisterLand(call) /\ UNCHANGED ledgerVars
           /\ metadataCID' = CidsAfter(call, accepted)
    /\ ops' = [ops EXCEPT ![c].tx = IF accepted THEN "confirmed" ELSE "reverted"]

\* tx.wait() in handleSave as it would be if it resolved for a reverted
\* transaction too.
HsWaitIgnoringReceipt(c) ==
    /\ ops[c].pc = "wait"
    /\ ops[c].tx # "pending"
    /\ ops' = [ops EXCEPT ![c].pc = "reloadLands", ![c].net = Append(@, "reloadLands")]
    /\ UNCHANGED <<ledgerVars, metadataCID, registered>>

\* tx.wait() answered in handleSave: after the confirmation it reloads the
\* land list; a reverted transaction is caught and logged.
HsWait(c) ==
    /\ ops[c].pc = "wait"
    /\ ops[c].tx # "pending"
    /\ IF ops[c].tx = "confirmed"
       THEN ops' = [ops EXCEPT ![c].pc = "reloadLands", ![c].net = Append(@, "reloadLands")]
       ELSE OpLog(c, "transaction failed")
    /\ UNCHANGED <<ledgerVars, metadataCID, registered>>

\* reloadLands() answered in handleSave: then onClose(), or the catch.
HsReloadLands(c, ok) ==
    /\ ops[c].pc = "reloadLands"
    /\ IF ok
       THEN ops' = [ops EXCEPT ![c].pc = "done", ![c].result = Void, ![c].closed = TRUE]
       ELSE OpLog(c, "reload failed")
    /\ UNCHANGED <<ledgerVars, metadataCID, registered>>

\* The caller has the outcome and the transaction is settled; the slot is
\* free for another operation.
OpSettled(c) ==
    /\ ops[c].pc = "done"
    /\ ops[c].tx # "pending"
    /\ ops' = [ops EXCEPT ![c] = IdleOp]
    /\ UNCHANGED <<ledgerVars, metadataCID, registered>>

\* The steps of one operation after its start.
OpStep(c) ==
    \/ \E ws \in Addresses \cup {NoAddress} : OpConnectAccount(c, ws)
    \/ \E ws \in Addresses \cup {NoAddress} : LgConnectAccount(c, ws)
    \/ \E i \in 2..Len(ListingAwaits), ok \in BOOLEAN : LgAnswered(c, i, ok)
    \/ \E accepted \in BOOLEAN : OpSubmit(c, accepted)
    \/ HsWait(c)
    \/ \E ok \in BOOLEAN : HsReloadLands(c, ok)

\* ---------------------------------------------------------------- login page
\* Accounts as the wallet reports them, and ethers.getAddress, which turns an
\* address into its checksummed spelling.
RawAccounts == {"0xab", "0xcd"}
GetAddress(raw) == IF raw = "0xab" THEN "0xAb" ELSE "0xCd"

\* errors.wallet: the texts the page sets; Unset stands for the absent key.
Unset == ""
NotInstalledText == "MetaMask is not installed. Please install MetaMask to continue."
RejectedText == "Connection was rejected by user."
FailedText(message) == "Failed to connect to MetaMask: " \o message
SiweFailedText(message) == "SIWE signing failed: " \o message
NoErrors == [wallet |-> Unset]

\* The awaited wallet requests of the SIWE block, in order.
SiweAwaits == <<"getSigner", "getNetwork", "signMessage">>

\* The positions at which connectMetaMask awaits the wallet.
AttemptAwaits == {"requestAccounts"} \cup {SiweAwaits[i] : i \in 1..Len(SiweAwaits)}

\* A connectMetaMask invocation: where it waits, how many were started, the
\* checksummed address it obtained, and what it called: login(address) and
\* navigate(path), each at most once.
NoPath == ""
IdleAttempt ==
    [pc |-> "idle", started |-> 0, userAddress |-> NoAddress,
     loginArg |-> NoAddress, navigatedTo |-> NoPath]

\* connectMetaMask as it would start if the button were never disabled.
ConnectMetaMaskUnguarded(hasProvider) ==
    /\ attempt.started < MaxAttempts
    /\ IF hasProvider
       THEN /\ walletStatus' = "connecting"
            /\ errors' = NoErrors
            /\ attempt' = [IdleAttempt EXCEPT !.pc = "requestAccounts",
                                              !.started = attempt.started + 1]
       ELSE /\ walletStatus' = "error"
            /\ errors' = [wallet |-> NotInstalledText]
            /\ attempt' = [IdleAttempt EXCEPT !.started = attempt.started + 1]
    /\ UNCHANGED walletAddress

\* The connect button, enabled unless the status is connecting or connected,
\* runs connectMetaMask up to its first await: status 'connecting', errors
\* cleared; without window.ethereum it ends at once with the error.
ConnectMetaMask(hasProvider) ==
    /\ walletStatus \notin {"connecting", "connected"}
    /\ attempt.started < MaxAttempts
    /\ IF hasProvider
       THEN /\ walletStatus' = "connecting"
            /\ errors' = NoErrors
            /\ attempt' = [IdleAttempt EXCEPT !.pc = "requestAccounts",
                                              !.started = attempt.started + 1]
       ELSE /\ walletStatus' = "error"
            /\ errors' = [wallet |-> NotInstalledText]
            /\ attempt' = [IdleAttempt EXCEPT !.started = attempt.started + 1]
    /\ UNCHANGED walletAddress

\* The outer catch as it would be if it went on to sign the user in.
CmOuterCatchSigningIn(code, message) ==
    /\ walletStatus' = "error"
    /\ errors' = [wallet |-> IF code = 4001 THEN RejectedText ELSE FailedText(message)]
    /\ attempt' = [attempt EXCEPT !.pc = "idle", !.loginArg = "0xAb",
                                  !.navigatedTo = "/user/properties"]
    /\ UNCHANGED walletAddress

\* The outer catch: status 'error' and the text for the error's code.
CmOuterCatch(code, message) ==
    /\ walletStatus' = "error"
    /\ errors' = [wallet |-> IF code = 4001 THEN RejectedText ELSE FailedText(message)]
    /\ attempt' = [attempt EXCEPT !.pc = "idle"]
    /\ UNCHANGED walletAddress

\* eth_requestAccounts refused by the user (code 4001) or failed otherwise.
CmRequestFailed(code) ==
    /\ attempt.pc = "requestAccounts"
    /\ CmOuterCatch(code, "request failed")

\* eth_requestAccounts answered with a list of accounts: the first one is
\* checksummed (an empty list makes getAddress throw), then the SIWE block
\* starts with provider.getSigner().
CmRequestAccounts(accounts) ==
    /\ attempt.pc = "requestAccounts"
    /\ IF accounts = <<>>
       THEN CmOuterCatch(0, "invalid address")
       ELSE /\ attempt' = [attempt EXCEPT !.pc = SiweAwaits[1],
                                          !.userAddress = GetAddress(accounts[1])]
            /\ UNCHANGED <<walletStatus, errors, walletAddress>>

\* The statements after the SIWE block as they would be without
\* setWalletAddress(userAddress).
CmFinishWithoutAddress(errs) ==
    /\ errors' = errs
    /\ walletStatus' = "connected"
    /\ attempt' = [attempt EXCEPT !.pc = "idle", !.loginArg = attempt.userAddress,
                                  !.navigatedTo = "/user/properties"]
    /\ UNCHANGED walletAddress

\* The statements after the SIWE block: setWalletAddress, login, status
\* 'connected', navigate; `errs` is errors as the block left it.
CmFinish(errs) ==
    /\ errors' = errs
    /\ walletAddress' = attempt.userAddress
    /\ walletStatus' = "connected"
    /\ attempt' = [attempt EXCEPT !.pc = "idle", !.loginArg = attempt.userAddress,
                                  !.navigatedTo = "/user/properties"]

\* The SIWE block as it would be without its own try/catch: a failure reaches
\* the outer catch.
CmSiweAnsweredUncaught(i, ok) ==
    /\ attempt.pc = SiweAwaits[i]
    /\ IF ~ok
       THEN CmOuterCatch(0, SiweAwaits[i] \o " failed")
       ELSE IF i < Len(SiweAwaits)
       THEN /\ attempt' = [attempt EXCEPT !.pc = SiweAwaits[i + 1]]
            /\ UNCHANGED <<walletStatus, errors, walletAddress>>
       ELSE CmFinish(errors)

\* One awaited request of the SIWE block answered: a failure is caught inside
\* the block and recorded in errors.wallet; after it, or after the
\* signature, the attempt finishes as connected.
CmSiweAnswered(i, ok) ==
    /\ attempt.pc = SiweAwaits[i]
    /\ IF ~ok
       THEN CmFinish([errors EXCEPT !.wallet = SiweFailedText(SiweAwaits[i] \o " failed")])
       ELSE IF i < Len(SiweAwaits)
       THEN /\ attempt' = [attempt EXCEPT !.pc = SiweAwaits[i + 1]]
            /\ UNCHANGED <<walletStatus, errors, walletAddress>>
       ELSE CmFinish(errors)

LoginStep ==
    \/ \E hasProvider \in BOOLEAN : ConnectMetaMask(hasProvider)
    \/ \E code \in {4001, -32603} : CmRequestFailed(code)
    \/ \E accounts \in {<<>>} \cup {<<a>> : a \in RawAccounts} : CmRequestAccounts(accounts)
    \/ \E i \in 1..Len(SiweAwaits), ok \in BOOLEAN : CmSiweAnswered(i, ok)

\* ---------------------------------------------------------------- user registration
\* The ledger's roles: an address that never registered has role 0; a
\* confirmed registerUserWithCID gives its sender the user role.
RoleNone == 0
RoleUser == 1
RoleString(n) == IF n = RoleNone THEN "0" ELSE "1"

\* The CIDs the content store returns for user documents; NoCid: none.
UserCids == {"QmUserA", "QmUserB"}
NoCid == ""

\* A registerUserWithCID invocation: its argument, the requests awaited so far
\* (net), what roles() answered as text, the CID its upload returned, the
\* ledger call and the state of its transaction, and what the caller received.
RegisterUserCall(from, cid) == [fn |-> "registerUserWithCID", from |-> from, cid |-> cid]
IdleReg ==
    [pc |-> "idle", userAddress |-> NoAddress, net |-> <<>>, roleBN |-> "",
     cid |-> NoCid, call |-> NoCall, tx |-> "none", result |-> NoResult]

RgThrow(c, message) ==
    regs' = [regs EXCEPT ![c].pc = "done", ![c].result = Thrown(message)]

\* registerUserWithCID(contract, userAddress, userData) up to
\* `await contract.roles(userAddress)`; the contract is the one connected to
\* the wallet of userAddress.
RegisterUserWithCID(c, userAddress) ==
    /\ regs[c].pc = "idle"
    /\ regs' = [regs EXCEPT ![c] = [IdleReg EXCEPT !.pc = "roles",
                                                  !.userAddress = userAddress,
                                                  !.net = <<"roles">>]]
    /\ UNCHANGED <<roles, stored>>

\* roles() as it would continue if its answer were not compared with "0".
RgRolesUnchecked(c, answered) ==
    /\ regs[c].pc = "roles"
    /\ IF ~answered
       THEN RgThrow(c, "roles failed")
       ELSE regs' = [regs EXCEPT ![c].roleBN = RoleString(roles[regs[c].userAddress]),
                                 ![c].pc = "upload", ![c].net = Append(@, "upload")]
    /\ UNCHANGED <<roles, stored>>

\* roles() answered: if (roleBN.toString() !== "0") throw ...; else the user
\* data goes to lighthouse.upload.
RgRoles(c, answered) ==
    /\ regs[c].pc = "roles"
    /\ IF ~answered
       THEN RgThrow(c, "roles failed")
       ELSE LET roleBN == RoleString(roles[regs[c].userAddress])
            IN  IF roleBN # "0"
                THEN regs' = [regs EXCEPT ![c].roleBN = roleBN, ![c].pc = "done",
                                ![c].result = Thrown("Already registered as user")]
                ELSE regs' = [regs EXCEPT ![c].roleBN = roleBN, ![c].pc = "upload",
                                          ![c].net = Append(@, "upload")]
    /\ UNCHANGED <<roles, stored>>

\* lighthouse.upload answered with uploadResponse.data.Hash, or failed
\* (NoCid); with the CID the invocation calls contract.registerUserWithCID(cid).
RgUpload(c, hash) ==
    /\ regs[c].pc = "upload"
    /\ IF hash = NoCid
       THEN RgThrow(c, "upload failed") /\ UNCHANGED stored
       ELSE /\ stored' = stored \cup {hash}
            /\ regs' = [regs EXCEPT ![c].cid = hash, ![c].pc = "submit",
                            ![c].call = RegisterUserCall(regs[c].userAddress, hash),
                            ![c].net = Append(@, "registerUserWithCID")]
    /\ UNCHANGED roles

\* contract.registerUserWithCID(cid) answered: the transaction was sent and
\* is returned, or the wallet or the node refused it; the gas estimation
\* fails when the sender has a role by now.
RgSubmit(c, accepted) ==
    /\ regs[c].pc = "submit"
    /\ accepted => roles[regs[c].call.from] = RoleNone
    /\ IF accepted
       THEN regs' = [regs EXCEPT ![c].pc = "done", ![c].tx = "pending",
                                 ![c].result = TransactionResponse]
       ELSE RgThrow(c, "transaction rejected")
    /\ UNCHANGED <<roles, stored>>

\* The ledger executes the registration: require(roles[msg.sender] ==
\* Role.None), then the sender is a user.
RgMine(c) ==
    /\ regs[c].tx = "pending"
    /\ IF roles[regs[c].call.from] = RoleNone
       THEN /\ roles' = [roles EXCEPT ![regs[c].call.from] = RoleUser]
            /\ regs' = [regs EXCEPT ![c].tx = "confirmed"]
       ELSE /\ regs' = [regs EXCEPT ![c].tx = "reverted"]
            /\ UNCHANGED roles
    /\ UNCHANGED stored

\* The caller has the outcome and the transaction is settled; the slot is
\* free for another invocation.
RgSettled(c) ==
    /\ regs[c].pc = "done"
    /\ regs[c].tx # "pending"
    /\ regs' = [regs EXCEPT ![c] = IdleReg]
    /\ UNCHANGED <<roles, stored>>

\* ---------------------------------------------------------------- specification
\* The ledger after the parcels were registered (listingLand -> registerLand)
\* by 0xA, who also holds access to each encrypted deed (uploadEncrypted);
\* nothing is listed, no invocation is running.
Init ==
    /\ owner = [l \in Lands |-> "0xA"]
    /\ status = [l \in Lands |-> "Active"]
    /\ landPrices = [l \in Lands |-> 0]
    /\ pendingBuyer = [l \in Lands |-> NoAddress]
    /\ access = [cid \in PrivateCIDs |-> owner[CHOOSE l \in Lands : GeranCid(l) = cid]]
    /\ calls = [c \in Calls |-> IdleCall]
    /\ agg = IdleAgg
    /\ tasks = <<>>
    /\ ops = [c \in OpIds |-> IdleOp]
    /\ metadataCID = [l \in Lands |-> MetadataCID(l)]
    /\ registered = <<>>
    /\ walletStatus = "disconnected"
    /\ errors = NoErrors
    /\ walletAddress = NoAddress
    /\ attempt = IdleAttempt
    /\ roles = [a \in Addresses |-> RoleNone]
    /\ stored = {}
    /\ regs = [c \in Calls |-> IdleReg]

vars == <<owner, status, landPrices, pendingBuyer, access, calls, agg, tasks,
          ops, metadataCID, registered, walletStatus, errors, walletAddress, attempt,
          roles, stored, regs>>

\* The ownership transfer, among the other users' ledger transactions.
Next ==
    \/ LedgerStep /\ UNCHANGED <<transferVars, aggVars, clientVars, loginVars, registerVars>>
    \/ \E c \in Calls, l \in Lands, b \in Addresses :
            ApprovePurchase(c, l, b, GeranCid(l))
                /\ UNCHANGED <<aggVars, clientVars, loginVars, registerVars>>
    \/ \E c \in Calls : ApStep(c) /\ UNCHANGED <<aggVars, clientVars, loginVars, registerVars>>
    \/ \E c \in Calls : ApNeverAnswered(c) /\ UNCHANGED <<aggVars, clientVars, loginVars, registerVars>>
    \/ \E c \in Calls : ApSettled(c) /\ UNCHANGED <<aggVars, clientVars, loginVars, registerVars>>

Spec == Init /\ [][Next]_vars

\* The aggregation, among the other users' ledger transactions.
AggNext ==
    \/ LedgerStep /\ UNCHANGED <<transferVars, aggVars, clientVars, loginVars, registerVars>>
    \/ \E kind \in Kinds, user \in Addresses :
            AggInvoke(kind, user) /\ UNCHANGED <<clientVars, loginVars, registerVars>>
    \/ AggStep /\ UNCHANGED <<clientVars, loginVars, registerVars>>
    \/ \E i \in 1..MaxLands : TaskNeverAnswered(i) /\ UNCHANGED <<clientVars, loginVars, registerVars>>
    \/ AggSettled /\ UNCHANGED <<clientVars, loginVars, registerVars>>

AggSpec == Init /\ [][AggNext]_vars

\* The price-carrying operations on one parcel, one at a time, among the other
\* users' ledger transactions on it and the ledger's execution of what was
\* sent. A buyer passes any of the price texts or the price as fetchAllLands
\* shows it.
FirstOp == 1
FirstLand == 1
othersOfClient == <<transferVars, aggVars, loginVars, registerVars>>
ClientNext ==
    \/ LedgerStepOn(FirstLand) /\ UNCHANGED <<clientVars, othersOfClient>>
    \/ \E priceRM \in PriceTexts :
            ListLandForSale(FirstOp, FirstLand, priceRM) /\ UNCHANGED othersOfClient
    \/ \E priceRM \in PriceTexts \cup {PriceRMText(landPrices[FirstLand])} :
            RequestToBuyLand(FirstOp, FirstLand, priceRM) /\ UNCHANGED othersOfClient
    \/ \E priceRM \in PriceTexts : ListingLand(FirstOp, priceRM) /\ UNCHANGED othersOfClient
    \/ \E contract \in Addresses \cup {NoAddress}, newStatus \in ModalStatuses,
          newPrice \in PriceTexts :
            HandleSave(FirstOp, contract, FirstLand, newStatus, newPrice)
                /\ UNCHANGED othersOfClient
    \/ OpStep(FirstOp) /\ UNCHANGED othersOfClient
    \/ \E accepted \in BOOLEAN : MineOp(FirstOp, accepted) /\ UNCHANGED othersOfClient
    \/ OpSettled(FirstOp) /\ UNCHANGED othersOfClient

ClientSpec == Init /\ [][ClientNext]_vars

\* Prospective buyers, one per operation slot, each committing the funds that
\* RM 5000 converts to on a parcel the owner lists at that price.
Buyers == <<"0xB", "0xC">>
BuyerOf(c) == Buyers[((c - 1) % Len(Buyers)) + 1]
ExactFundsText == <<"5", "0", "0", "0">>
RaceNext ==
    \/ \E p \in ListPrices :
            LedgerListLandForSale(FirstLand, p) /\ UNCHANGED <<clientVars, othersOfClient>>
    \/ \E c \in OpIds :
            RequestToBuyLand(c, FirstLand, ExactFundsText) /\ UNCHANGED othersOfClient
    \/ \E c \in OpIds : \E ws \in {BuyerOf(c), NoAddress} :
            OpConnectAccount(c, ws) /\ UNCHANGED othersOfClient
    \/ \E c \in OpIds, accepted \in BOOLEAN : OpSubmit(c, accepted) /\ UNCHANGED othersOfClient
    \/ \E c \in OpIds, accepted \in BOOLEAN : MineOp(c, accepted) /\ UNCHANGED othersOfClient
    \/ \E c \in OpIds : OpSettled(c) /\ UNCHANGED othersOfClient

RaceSpec == Init /\ [][RaceNext]_vars

\* The login page: the user's clicks and the wallet's answers.
LoginNext ==
    LoginStep /\ UNCHANGED <<ledgerVars, transferVars, aggVars, clientVars, registerVars>>

LoginSpec == Init /\ [][LoginNext]_vars

\* User registrations, among the ledger's execution of what was sent.
othersOfRegister == <<ledgerVars, transferVars, aggVars, clientVars, loginVars>>
RegisterNext ==
    \/ \E c \in Calls, userAddress \in Addresses :
            RegisterUserWithCID(c, userAddress) /\ UNCHANGED othersOfRegister
    \/ \E c \in Calls, answered \in BOOLEAN :
            RgRoles(c, answered) /\ UNCHANGED othersOfRegister
    \/ \E c \in Calls, hash \in UserCids \cup {NoCid} :
            RgUpload(c, hash) /\ UNCHANGED othersOfRegister
    \/ \E c \in Calls, accepted \in BOOLEAN :
            RgSubmit(c, accepted) /\ UNCHANGED othersOfRegister
    \/ \E c \in Calls : RgMine(c) /\ UNCHANGED othersOfRegister
    \/ \E c \in Calls : RgSettled(c) /\ UNCHANGED othersOfRegister

RegisterSpec == Init /\ [][RegisterNext]_vars

\* ---------------------------------------------------------------- transfer properties
\* The parcel whose encrypted deed is `cid`.
LandOfCid(cid) == CHOOSE l \in Lands : GeranCid(l) = cid

\* C1: every off-chain step of approvePurchase (access challenge, signing,
\* re-grant) happens only after the ledger transfer was submitted and
\* confirmed; an invocation whose submit or confirmation failed has made no
\* off-chain invocation.
C1_OffchainOnlyAfterConfirmation ==
    \A c \in Calls :
        /\ calls[c].offchain # <<>> => calls[c].tx = "confirmed"
        /\ (calls[c].pc = "done" /\ calls[c].tx # "confirmed") => calls[c].offchain = <<>>

\* One invocation aborted at the confirmation with no off-chain call made,
\* another went through all three off-chain calls after its confirmation.
C1_Witness ==
    \E c1, c2 \in Calls :
        /\ calls[c1].pc = "done" /\ calls[c1].tx = "failed" /\ calls[c1].offchain = <<>>
        /\ calls[c2].tx = "confirmed"
        /\ calls[c2].offchain = <<"getAuthMessage", "signMessage", "transferOwnership">>

\* C2: when the on-chain phase succeeded and the off-chain phase failed, the
\* caller receives an AccessRegrantFailure carrying the original landId and
\* buyer, distinguishable from the error of a failed on-chain phase.
C2_AccessRegrantFailureSurfaced ==
    \A c \in Calls :
        (calls[c].pc = "done" /\ calls[c].tx = "confirmed" /\ calls[c].result # Void) =>
            /\ calls[c].result.name = "AccessRegrantFailure"
            /\ {"landId", "buyer"} \subseteq DOMAIN calls[c].result
            /\ calls[c].result.landId = calls[c].landId
            /\ calls[c].result.buyer = calls[c].buyerAddress

\* C3: for every landId at most one transfer is in flight: while one
\* invocation for a landId is between its start and its completion, no second
\* invocation for that landId has issued a ledger transfer.
C3_OneTransferInFlightPerLand ==
    \A c1, c2 \in Calls :
        (c1 # c2 /\ InFlight(c1) /\ InFlight(c2) /\ calls[c1].landId = calls[c2].landId) =>
            ~(calls[c1].tx # "none" /\ calls[c2].tx # "none")

\* C4: the inconsistent-transfer state is retriable: after phase 1 succeeded
\* and phase 2 failed for (landId, buyer), the same transfer invoked again by
\* the seller can pass its on-chain phase and go on to the re-grant.
C4_RetryCanReachRegrant ==
    \A c1, c2 \in Calls :
        ( /\ c1 # c2
          /\ calls[c1].pc = "done" /\ calls[c1].tx = "confirmed" /\ calls[c1].result # Void
          /\ owner[calls[c1].landId] = calls[c1].buyerAddress
          /\ access[calls[c1].privateCID] # calls[c1].buyerAddress
          /\ calls[c2].pc = "wait" /\ ~calls[c2].silent
          /\ calls[c2].userAddress = calls[c1].userAddress
          /\ calls[c2].landId = calls[c1].landId
          /\ calls[c2].buyerAddress = calls[c1].buyerAddress
          /\ calls[c2].privateCID = calls[c1].privateCID )
        => ENABLED ApWaitConfirmed(c2)

\* ---------------------------------------------------------------- aggregation properties
\* Every gateway the task contacted failed: jsonMeta was never assigned.
ResolutionFailed(t) ==
    /\ t.pc = "done"
    /\ \A k \in DOMAIN t.contacted : t.contacted[k].outcome # "ok"

\* The fields of a record that come from the off-chain document.
DescriptiveFields(kind) ==
    CASE kind = "getMyLands" -> {"address", "description"}
      [] kind = "getYourLands" ->
            {"titleNumber", "landType", "username", "priceRM", "area", "geranCid",
             "geranUrl", "timestamp"}
      [] kind = "fetchAllLands" ->
            {"titleNumber", "landType", "username", "area", "geranCid", "geranUrl",
             "timestamp"}

\* C5: the sequence an aggregation returns is as long as the identifier
\* sequence the ledger returned, and its i-th element is the record of the
\* i-th identifier, whatever the order in which the tasks completed.
C5_ResultInIdOrder ==
    agg.pc = "returned" =>
        /\ Len(agg.result) = Len(agg.landIds)
        /\ \A i \in 1..Len(agg.landIds) : agg.result[i].landId = ToString(agg.landIds[i])

\* Two records returned although the second task completed first.
C5_Witness ==
    /\ agg.pc = "returned"
    /\ Len(agg.landIds) = 2
    /\ agg.settled = <<2, 1>>
    /\ agg.result[1].landId # agg.result[2].landId

\* C6: when metadata resolution fails for an identifier, the result of
\* getYourLands / fetchAllLands still holds a record for it, carrying the
\* on-chain id, status, owner and price.
C6_FailureKeepsOnchainFields ==
    (agg.pc = "returned" /\ agg.kind \in {"getYourLands", "fetchAllLands"}) =>
        \A i \in 1..Len(agg.landIds) :
            ResolutionFailed(tasks[i]) =>
                /\ i \in DOMAIN agg.result
                /\ agg.result[i].landId = ToString(agg.landIds[i])
                /\ agg.result[i].status = tasks[i].statusCode
                /\ agg.result[i].owner = tasks[i].ownerAddr
                /\ agg.result[i].priceRM \in {PriceRMOf(p) : p \in ListPrices \cup {0}}

\* C7: a failure confined to one record's task (its getLand / landPrices
\* read, or its metadata fetch) never aborts the batch: an aggregation throws
\* only when the identifier query itself failed.
C7_TaskFailureNeverAborts ==
    agg.pc = "thrown" => agg.rejectedBy = 0

\* C8: the record assembled after a failed resolution differs from every
\* record assembled from a resolved document, and its descriptive fields are
\* not all empty strings: the failure is explicit.
C8_FailureMarkerExplicit ==
    \A i \in DOMAIN tasks :
        ResolutionFailed(tasks[i]) =>
            /\ tasks[i].out \notin
                    {ValueRecord(agg.kind, tasks[i], doc) : doc \in DocsOf(agg.kind)}
            /\ \E f \in DescriptiveFields(agg.kind) : tasks[i].out[f] # ""

C10_NeverStuck ==
    /\ agg.pc \in {"listing", "running"} => ENABLED AggStep
    /\ \A c \in Calls : InFlight(c) => ENABLED ApStep(c)

\* ---------------------------------------------------------------- price properties
\* The amount a price text stands for is not a finite positive number.
InvalidAmount(text) ==
    LET x == ParseFloat(text)
    IN  x.kind # "finite" \/ x.digits = 0 \/ x.sign < 0

\* The operation of slot c ended by throwing to its caller.
Failed(c) == ops[c].pc = "done" /\ ops[c].result \notin {NoResult, Void, TransactionResponse}

\* handleSave returned at once for want of a contract: the price was not looked at.
WithoutContract(c) ==
    /\ ops[c].name = "handleSave"
    /\ ops[c].pc = "done"
    /\ ops[c].call = NoCall
    /\ ops[c].logged = NoResult

\* C11: an operation given a price that is zero, negative, NaN (an empty or
\* non-numeric text) or infinite issues no ledger call and ends by reporting
\* an error to its caller.
C11_InvalidPriceRejected ==
    \A c \in OpIds :
        (ops[c].name # "idle" /\ ~WithoutContract(c) /\ InvalidAmount(ops[c].priceRM)) =>
            /\ ops[c].call = NoCall
            /\ ops[c].pc = "done" => Failed(c)

\* C12: when listingLand, listLandForSale or requestToBuyLand ends on a price
\* that is not valid, it has made no network request at all: no wallet
\* connection, no access challenge, no upload, no ledger submission.
C12_InvalidPriceBeforeNetwork ==
    \A c \in OpIds :
        ( /\ ops[c].name \in {"listingLand", "listLandForSale", "requestToBuyLand"}
          /\ InvalidAmount(ops[c].priceRM)
          /\ ops[c].pc = "done" )
            => ops[c].net = <<>>

\* The amount a valid price text stands for, in thousandths of a ringgit (the
\* texts have at most three decimals), and the gwei one thousandth is worth.
RECURSIVE Pow10(_)
Pow10(n) == IF n <= 0 THEN 1 ELSE 10 * Pow10(n - 1)
MillDecimals == 3
AmountMills(text) ==
    LET x == ParseFloat(text) IN x.digits * Pow10(MillDecimals + x.exp)
GweiPerMill == UnitsPerEth \div (RM_PER_ETH * Pow10(MillDecimals))
MillsPerHundredth == 10
Abs(n) == IF n < 0 THEN -n ELSE n

\* C13: for a valid amount x, the price listLandForSale sends, shown the way
\* fetchAllLands shows it, differs from x by less than what one ledger unit is
\* worth in ringgit.
C13_RoundTripWithinOneUnit ==
    \A c \in OpIds :
        ( /\ ops[c].name = "listLandForSale"
          /\ ~InvalidAmount(ops[c].priceRM)
          /\ ops[c].call # NoCall )
            => LET shown == PriceHundredthsOf(ops[c].call.priceWei) * MillsPerHundredth
               IN  Abs(shown - AmountMills(ops[c].priceRM)) * GweiPerMill < 1

\* The errors the price conversion throws.
ConversionErrors ==
    { Thrown(m) : m \in {"invalid FixedNumber string value", "Price must be positive",
                         "Invalid price", "Price must be at least MYR 4000"} }

\* C14: for a valid amount x, listLandForSale and listingLand send exactly
\* x / 4000 ether in ledger units (RM 5000 gives 1.25), and the conversion
\* fails for no valid x.
C14_ListedPriceExact ==
    \A c \in OpIds :
        ( /\ ops[c].name \in {"listLandForSale", "listingLand"}
          /\ ~InvalidAmount(ops[c].priceRM) )
            => /\ ops[c].call # NoCall =>
                    ops[c].call.priceWei = AmountMills(ops[c].priceRM) * GweiPerMill
               /\ ops[c].result \notin ConversionErrors

\* The sale state machine's table: the ledger state in which a call is a
\* listed transition for its signer. updateLandDetails to ForSale is the
\* owner's list, to Active the owner's cancel; registerLand is no sale
\* transition.
TableAllows(call) ==
    CASE call.fn = "listLandForSale" ->
            status[call.landId] = "Active" /\ call.from = owner[call.landId]
      [] call.fn = "requestToBuy" ->
            /\ status[call.landId] = "ForSale"
            /\ pendingBuyer[call.landId] = NoAddress
            /\ call.value = landPrices[call.landId]
      [] call.fn = "updateLandDetails" ->
            /\ call.from = owner[call.landId]
            /\ \/ call.status = StatusToEnum("ForSale") /\ status[call.landId] = "Active"
               \/ /\ call.status = StatusToEnum("Active")
                  /\ status[call.landId] \in {"ForSale", "PendingApproval"}
      [] OTHER -> TRUE

\* C15: an operation calls the ledger only for a transition the table lists
\* for the parcel's status and the caller; otherwise it stops before the call.
C15_TransitionsCheckedLocally ==
    [][ \A c \in OpIds :
            (ops[c].call = NoCall /\ ops'[c].call # NoCall) => TableAllows(ops'[c].call) ]_vars

\* C16: a parcel for sale or pending approval has a positive price and an
\* active one has price 0; handleSave submits neither ForSale with price 0
\* nor Active with a positive price.
C16_PriceMatchesStatus ==
    /\ \A l \in Lands :
            /\ status[l] \in {"ForSale", "PendingApproval"} => landPrices[l] > 0
            /\ status[l] = "Active" => landPrices[l] = 0
    /\ \A c \in OpIds :
            ops[c].call.fn = "updateLandDetails" =>
                /\ ~(ops[c].call.status = StatusToEnum("ForSale") /\ ops[c].call.priceWei = 0)
                /\ ~(ops[c].call.status = StatusToEnum("Active") /\ ops[c].call.priceWei > 0)

\* C17: when two different buyers have committed exact funds on the parcel and
\* the ledger has executed both transactions, the one whose transaction was
\* confirmed is the pending buyer and the other buyer's operation has failed.
C17_OneCommitWins ==
    \A c \in OpIds : \A d \in OpIds \ {c} :
        ( /\ ops[c].name = "requestToBuyLand" /\ ops[d].name = "requestToBuyLand"
          /\ ops[c].pc = "done" /\ ops[d].pc = "done"
          /\ ops[c].userAddress # ops[d].userAddress
          /\ ops[c].tx = "confirmed" /\ ops[d].tx # "pending" )
            => /\ status[FirstLand] = "PendingApproval"
               /\ pendingBuyer[FirstLand] = ops[c].userAddress
               /\ Failed(d)

SiweFailure == \E i \in 1..Len(SiweAwaits) : CmSiweAnswered(i, FALSE)

\* The attempt ended without a wallet, or its account request was refused or
\* failed.
ConnectionFailure ==
    \/ ConnectMetaMask(FALSE)
    \/ \E code \in {4001, -32603} : CmRequestFailed(code)

C20_ConnectionFailureIsError ==
    [][ ConnectionFailure =>
            /\ walletStatus' = "error"
            /\ errors'.wallet # Unset
            /\ attempt'.pc = "idle"
            /\ attempt'.loginArg = NoAddress
            /\ walletAddress' = NoAddress
            /\ attempt'.navigatedTo = NoPath ]_vars

\* The user refused the account request.
C20_Witness ==
    /\ walletStatus = "error"
    /\ errors.wallet = RejectedText
    /\ attempt.pc = "idle"
    /\ attempt.loginArg = NoAddress
    /\ walletAddress = NoAddress

\* C21: on the login page, status 'connected' implies that walletAddress is
\* set and that login was called with exactly that address; and the status is
\* 'connecting' exactly while the attempt awaits a wallet request, so an
\* attempt whose requests were all answered has ended as 'connected' or
\* 'error'.
C21_ConnectedMeansSignedIn ==
    /\ walletStatus = "connected" =>
            /\ walletAddress # NoAddress
            /\ attempt.loginArg = walletAddress
    /\ walletStatus = "connecting" => attempt.pc \in AttemptAwaits
    /\ attempt.pc = "idle" /\ attempt.started > 0 => walletStatus \in {"connected", "error"}

\* Connected at the second attempt, after a first one that ended in error.
C21_Witness ==
    /\ walletStatus = "connected"
    /\ walletAddress = "0xCd"
    /\ attempt.loginArg = "0xCd"
    /\ attempt.started = 2
    /\ attempt.pc = "idle"

\* C22: an attempt starts only from status 'disconnected' or 'error' and only
\* when none is in flight; login is called only by the step that makes the
\* status 'connected', after which nothing more happens; and from status
\* 'error' a new attempt can be started.
C22_OneAttemptInFlight ==
    /\ [](walletStatus = "error" /\ attempt.started < MaxAttempts =>
                ENABLED ConnectMetaMask(TRUE))
    /\ [][ /\ attempt'.started # attempt.started =>
                    /\ walletStatus \in {"disconnected", "error"}
                    /\ attempt.pc = "idle"
                    /\ attempt'.started = attempt.started + 1
           /\ attempt'.loginArg # attempt.loginArg /\ attempt'.loginArg # NoAddress =>
                    /\ walletStatus = "connecting"
                    /\ walletStatus' = "connected"
           /\ walletStatus # "connected" ]_vars

\* A retry in flight: the second attempt, started after the first one ended
\* in error.
C22_Witness ==
    /\ walletStatus = "connecting"
    /\ attempt.started = 2
    /\ attempt.pc = "requestAccounts"
    /\ attempt.loginArg = NoAddress

\* The requests handleSave has awaited so far.
Awaited(c) == {ops[c].net[i] : i \in 1..Len(ops[c].net)}

\* C23: handleSave calls reloadLands, and then onClose, only after the ledger
\* confirmed its updateLandDetails transaction; when the conversion, the
\* submission or the confirmation failed, reloadLands was not called and the
\* modal is still open.
C23_SuccessOnlyAfterConfirmation ==
    \A c \in OpIds :
        ops[c].name = "handleSave" =>
            /\ "reloadLands" \in Awaited(c) =>
                    /\ ops[c].tx = "confirmed"
                    /\ ops[c].net = <<"updateLandDetails", "wait", "reloadLands">>
            /\ ops[c].closed => "reloadLands" \in Awaited(c) /\ ops[c].logged = NoResult
            /\ ops[c].logged \in
                    ConversionErrors \cup {Thrown(m) : m \in
                        {"value out-of-bounds", "transaction rejected", "transaction failed"}} =>
                    /\ "reloadLands" \notin Awaited(c)
                    /\ ~ops[c].closed

\* A save that was confirmed, reloaded the list and closed the modal.
C23_Witness ==
    /\ ops[FirstOp].name = "handleSave"
    /\ ops[FirstOp].tx = "confirmed"
    /\ ops[FirstOp].closed
    /\ ops[FirstOp].net = <<"updateLandDetails", "wait", "reloadLands">>
    /\ status[FirstLand] = "ForSale"

\* C24: an invocation of registerUserWithCID whose address has a role other
\* than 0 ended with the error "Already registered as user" having awaited
\* roles() only: no upload, no ledger call; and an invocation that made the
\* ledger call made it after roles() answered "0" and after its upload, with
\* the CID that upload returned, which the content store holds.
C24_RegisteredAddressRejected ==
    \A c \in Calls :
        /\ regs[c].roleBN \notin {"", "0"} =>
                /\ regs[c].pc = "done"
                /\ regs[c].result = Thrown("Already registered as user")
                /\ regs[c].net = <<"roles">>
                /\ regs[c].cid = NoCid
                /\ regs[c].call = NoCall
                /\ regs[c].tx = "none"
        /\ regs[c].call # NoCall =>
                /\ regs[c].roleBN = "0"
                /\ regs[c].net = <<"roles", "upload", "registerUserWithCID">>
                /\ regs[c].cid \in UserCids \cap stored
                /\ regs[c].call = RegisterUserCall(regs[c].userAddress, regs[c].cid)
        /\ "registerUserWithCID" \in {regs[c].net[i] : i \in 1..Len(regs[c].net)} =>
                regs[c].call # NoCall

\* 0xA registered with the CID of its upload, and its second registration was
\* rejected before any upload.
C24_Witness ==
    \E c1, c2 \in Calls :
        /\ regs[c1].userAddress = "0xA" /\ regs[c1].tx = "confirmed"
        /\ regs[c1].call = RegisterUserCall("0xA", "QmUserB")
        /\ roles["0xA"] = RoleUser
        /\ regs[c2].userAddress = "0xA" /\ regs[c2].roleBN = "1"
        /\ regs[c2].result = Thrown("Already registered as user")
        /\ stored = {"QmUserB"}

\* C25: when approvePurchase(landId, buyerAddress, privateCID) completes
\* without error, its ledger transaction made buyerAddress the owner of
\* landId in place of the caller, its re-grant moved the access to privateCID
\* from the caller to that same buyerAddress, and the signature it handed
\* over was made by the caller over the challenge issued for the caller's
\* address.
C25_SameBuyerOnBothSides ==
    [][ \A c \in Calls :
            /\ InFlight(c) /\ calls'[c].pc # "idle" =>
                    /\ calls'[c].landId = calls[c].landId
                    /\ calls'[c].buyerAddress = calls[c].buyerAddress
                    /\ calls'[c].privateCID = calls[c].privateCID
            /\ calls[c].tx # "confirmed" /\ calls'[c].tx = "confirmed" =>
                    /\ owner[calls[c].landId] = calls[c].userAddress
                    /\ owner'[calls[c].landId] = calls[c].buyerAddress
            /\ calls[c].result # Void /\ calls'[c].result = Void =>
                    /\ calls[c].tx = "confirmed"
                    /\ access[calls[c].privateCID] = calls[c].userAddress
                    /\ access'[calls[c].privateCID] = calls[c].buyerAddress
                    /\ calls[c].challengeFor = calls[c].userAddress
                    /\ calls[c].signedBy = calls[c].userAddress ]_vars

\* 0xA's approval of 0xB's purchase of parcel 1 completed: 0xB owns the
\* parcel and holds the access to its deed, on 0xA's signature.
C25_Witness ==
    \E c \in Calls :
        /\ calls[c].pc = "done" /\ calls[c].result = Void
        /\ calls[c].userAddress = "0xA" /\ calls[c].buyerAddress = "0xB"
        /\ calls[c].landId = 1
        /\ owner[1] = "0xB"
        /\ access[GeranCid(1)] = "0xB"
        /\ calls[c].challengeFor = "0xA" /\ calls[c].signedBy = "0xA"

\* C26: when requestToBuyLand is given the price that fetchAllLands shows for
\* the parcel's on-chain price p > 0, the conversion does not fail and the
\* value it attaches to requestToBuy equals p.
C26_AttachedFundsEqualPrice ==
    \A c \in OpIds :
        LET p == landPrices[FirstLand]
        IN  ( /\ ops[c].name = "requestToBuyLand"
              /\ ops[c].landId = FirstLand
              /\ p > 0
              /\ ops[c].priceRM = PriceRMText(p)
              /\ ops[c].userAddress # NoAddress \/ ops[c].pc = "done" ) =>
                /\ ops[c].result \notin ConversionErrors
                /\ ops[c].call # NoCall => ops[c].call.value = p

====
